---------------------------- MODULE Spec2Model ----------------------------
(***************************************************************************)
(* Model of annotator/annotator_jni.cc: the index-space converter          *)
(* ConvertIndicesBMPUTF8 (codepoint offsets <-> UTF-16 code-unit offsets)  *)
(* and the JNI entry points that use it around calls to the Annotator.     *)
(*                                                                         *)
(* A text is a sequence of Unicode scalar values (the UnicodeText the      *)
(* converter iterates over).  A CodepointSpan is a record [first, second]. *)
(***************************************************************************)
EXTENDS Integers, Sequences, FiniteSets, TLC

VARIABLES
    \* ---- one activation of ConvertIndicesBMPUTF8 ----
    utf8_str,        \* the text argument, as its sequence of scalar values
    orig_indices,    \* the span argument
    from_utf8,       \* TRUE: codepoint -> UTF-16, FALSE: UTF-16 -> codepoint
    it,              \* iterator position in unicode_str (1-based; Len+1 = end())
    unicode_index,   \* codepoint counter
    bmp_index,       \* UTF-16 code-unit counter
    result,          \* the span being built
    pc,              \* "entry" | "loop" | "returned" | "idle"
    \* ---- the JNI boundary ----
    java_text,       \* the managed side's text, as its sequence of scalar values
    java_selection,  \* the managed side's selection, in UTF-16 offsets
    annotator,       \* the native handle the managed side holds (0 = none)
    jni_call,        \* the last JNI call: method and arguments
    engine_call,     \* the last call made on the Annotator engine
    conversions,     \* the index conversions the last JNI call performed, in order
    jni_return       \* what the last JNI call handed back to the managed caller

vars == <<utf8_str, orig_indices, from_utf8, it, unicode_index, bmp_index,
          result, pc, java_text, java_selection, annotator, jni_call, engine_call, conversions,
          jni_return>>

scan_vars == <<utf8_str, orig_indices, from_utf8, it, unicode_index,
               bmp_index, result, pc>>

jni_vars == <<java_text, java_selection, annotator, jni_call, engine_call,
              conversions, jni_return>>

---------------------------------------------------------------------------
\* Bounds of the model.

\* Longest text, in scalar values.
MaxLen == 3

\* Longest text the managed side passes through the JNI methods.
MaxContextLen == 2

\* Most spans the engine's Annotate returns in one call.
MaxAnnotations == 2

\* The threshold of the scan: scalar values above it take two UTF-16 units.
BmpMax == 65535

\* Scalar values texts are built from: 'a', the last BMP value U+FFFF, the
\* first supplementary value U+10000.
Codepoints == {97, BmpMax, BmpMax + 1}

RECURSIVE SeqsUpTo(_)
SeqsUpTo(n) ==
    IF n = 0 THEN {<<>>}
    ELSE LET shorter == SeqsUpTo(n - 1)
         IN  shorter \cup {Append(s, c) : s \in {t \in shorter : Len(t) = n - 1},
                                          c \in Codepoints}

Texts == SeqsUpTo(MaxLen)

\* Offsets a caller may pass: every position of either index space of the
\* longest text, one past it, and negative values.
Offsets == {-5} \cup (-1 .. 2 * MaxLen + 1)

Span(a, b) == [first |-> a, second |-> b]

Spans == {Span(a, b) : a \in Offsets, b \in Offsets}

---------------------------------------------------------------------------
\* ConvertIndicesBMPUTF8

\* CodepointSpan result{-1, -1};
InitialResult_Zero == Span(0, 0)

InitialResult == Span(-1, -1)

\* source_index / target_index: which counter is read and which is written.
source_index(f, u, b) == IF f THEN u ELSE b

target_index(f, u, b) == IF f THEN b ELSE u

\* The lambda assign_indices_fn: two independent ifs.
assign_indices_fn_ElseIf(res, orig, src, tgt) ==
    IF orig.first = src THEN [res EXCEPT !.first = tgt]
    ELSE IF orig.second = src THEN [res EXCEPT !.second = tgt]
    ELSE res

assign_indices_fn(res, orig, src, tgt) ==
    [first  |-> IF orig.first = src THEN tgt ELSE res.first,
     second |-> IF orig.second = src THEN tgt ELSE res.second]

\* What one iteration adds to bmp_index: the for-increment's ++bmp_index plus
\* the body's extra ++bmp_index when *it > 0xFFFF.
BmpUnits_NoSurrogate(cp) == 1

BmpUnits_OffByOne(cp) == IF cp >= BmpMax THEN 2 ELSE 1

BmpUnits(cp) == IF cp > BmpMax THEN 2 ELSE 1

\* The scan state of one activation.
ScanState(i, u, b, res) ==
    [it |-> i, unicode_index |-> u, bmp_index |-> b, result |-> res]

\* State after the prologue (lines 209-222).
ScanEntry == ScanState(1, 0, 0, InitialResult)

\* One iteration of the for loop: the body, then ++it, ++unicode_index,
\* ++bmp_index.
LoopIteration_Swapped(str, orig, f, s) ==
    ScanState(s.it + 1,
              s.unicode_index + BmpUnits(str[s.it]),
              s.bmp_index + 1,
              assign_indices_fn(s.result, orig,
                                source_index(f, s.unicode_index, s.bmp_index),
                                target_index(f, s.unicode_index, s.bmp_index)))

LoopIteration(str, orig, f, s) ==
    ScanState(s.it + 1,
              s.unicode_index + 1,
              s.bmp_index + BmpUnits(str[s.it]),
              assign_indices_fn(s.result, orig,
                                source_index(f, s.unicode_index, s.bmp_index),
                                target_index(f, s.unicode_index, s.bmp_index)))

\* After the loop: the final assign_indices_fn(), then return result.
LoopExit_NoFinalAssign(str, orig, f, s) == s.result

LoopExit(str, orig, f, s) ==
    assign_indices_fn(s.result, orig,
                      source_index(f, s.unicode_index, s.bmp_index),
                      target_index(f, s.unicode_index, s.bmp_index))

RECURSIVE RunLoop(_, _, _, _)
RunLoop(str, orig, f, s) ==
    IF s.it <= Len(str)
    THEN RunLoop(str, orig, f, LoopIteration(str, orig, f, s))
    ELSE LoopExit(str, orig, f, s)

ConvertIndicesBMPUTF8(str, orig, f) == RunLoop(str, orig, f, ScanEntry)

ConvertIndicesBMPToUTF8(str, bmp_indices) ==
    ConvertIndicesBMPUTF8(str, bmp_indices, FALSE)

ConvertIndicesUTF8ToBMP(str, utf8_indices) ==
    ConvertIndicesBMPUTF8(str, utf8_indices, TRUE)

---------------------------------------------------------------------------
\* The converter, step by step.

CurrentScan == ScanState(it, unicode_index, bmp_index, result)

\* Lines 206-222: decode the text, zero the counters, result = {-1, -1}.
Enter ==
    /\ pc = "entry"
    /\ it' = ScanEntry.it
    /\ unicode_index' = ScanEntry.unicode_index
    /\ bmp_index' = ScanEntry.bmp_index
    /\ result' = ScanEntry.result
    /\ pc' = "loop"
    /\ UNCHANGED <<utf8_str, orig_indices, from_utf8>>
    /\ UNCHANGED jni_vars

\* Lines 234-242: one pass through the loop, taken while it != end().
Iterate ==
    /\ pc = "loop"
    /\ it <= Len(utf8_str)
    /\ LET s == LoopIteration(utf8_str, orig_indices, from_utf8, CurrentScan)
       IN  /\ it' = s.it
           /\ unicode_index' = s.unicode_index
           /\ bmp_index' = s.bmp_index
           /\ result' = s.result
    /\ UNCHANGED <<utf8_str, orig_indices, from_utf8, pc>>
    /\ UNCHANGED jni_vars

\* Lines 243-245: it == end(); the last comparison, and the return.
Return ==
    /\ pc = "loop"
    /\ it > Len(utf8_str)
    /\ result' = LoopExit(utf8_str, orig_indices, from_utf8, CurrentScan)
    /\ pc' = "returned"
    /\ UNCHANGED <<utf8_str, orig_indices, from_utf8, it, unicode_index, bmp_index>>
    /\ UNCHANGED jni_vars

NoCall == [op |-> "none"]

\* No JNI call is in progress or waiting to be taken by the caller.
NoJniCall ==
    /\ jni_call = [method |-> "none"]
    /\ engine_call = NoCall
    /\ conversions = <<>>
    /\ jni_return = [method |-> "none", null |-> FALSE]

JniIdle ==
    /\ java_text = <<>>
    /\ java_selection = Span(0, 0)
    /\ annotator = 0
    /\ NoJniCall

ScanIdle ==
    /\ utf8_str = <<>>
    /\ orig_indices = Span(0, 0)
    /\ from_utf8 = FALSE
    /\ it = 1
    /\ unicode_index = 0
    /\ bmp_index = 0
    /\ result = Span(0, 0)
    /\ pc = "idle"

\* A call of the converter on any text, span and direction.
Init ==
    /\ utf8_str \in Texts
    /\ orig_indices \in Spans
    /\ from_utf8 \in BOOLEAN
    /\ it = 1
    /\ unicode_index = 0
    /\ bmp_index = 0
    /\ result = Span(0, 0)
    /\ pc = "entry"
    /\ JniIdle

Next == Enter \/ Iterate \/ Return

Spec == Init /\ [][Next]_vars

---------------------------------------------------------------------------
\* The JNI entry points.  The Annotator engine is outside this file: what it
\* returns is any value of the result type.

\* Spans the engine may hand back for a selection, valid for the text or not.
EngineSpans == {Span(a, b) : a \in -1 .. MaxContextLen + 1,
                             b \in -1 .. MaxContextLen + 1}

\* model->SuggestSelection(context_utf8, input_indices, options)
SuggestSelectionResults(context, input_indices) ==
    EngineSpans \cup {input_indices}

\* Spans the engine annotates: non-empty codepoint spans of the text.
AnnotatedSpans(context) ==
    {s \in {Span(a, b) : a \in 0 .. Len(context), b \in 0 .. Len(context)} :
        s.first < s.second}

\* model->Annotate(context_utf8, options): the spans of the annotations.
AnnotateResults(context) ==
    {<<>>} \cup UNION {[1 .. n -> AnnotatedSpans(context)] : n \in 1 .. MaxAnnotations}

\* One use of the converter by a JNI method.
Conversion(f, context, in) ==
    [from_utf8 |-> f, in |-> in, out |-> ConvertIndicesBMPUTF8(context, in, f)]

\* Every entry point but nativeCloseAnnotator returns at once on ptr == 0:
\* nullptr, or false from nativeInitializeKnowledgeEngine (null |-> TRUE
\* stands for either).
NullHandle(method, ptr) ==
    /\ ptr = 0
    /\ jni_call' = [method |-> method, ptr |-> ptr]
    /\ engine_call' = NoCall
    /\ conversions' = <<>>
    /\ jni_return' = [method |-> method, null |-> TRUE]
    /\ UNCHANGED <<java_text, java_selection, annotator>>

\* nativeNewAnnotator, -FromPath, -FromAssetFileDescriptor: the released
\* pointer of the loaded model, 0 when loading failed.
nativeNewAnnotator ==
    /\ annotator = 0
    /\ \E loaded \in {0, 1} :
          /\ annotator' = loaded
          /\ jni_call' = [method |-> "nativeNewAnnotator"]
          /\ jni_return' = [method |-> "nativeNewAnnotator", null |-> FALSE,
                            value |-> loaded]
    /\ engine_call' = NoCall
    /\ conversions' = <<>>
    /\ UNCHANGED <<java_text, java_selection>>

nativeInitializeKnowledgeEngine(ptr) ==
    \/ NullHandle("nativeInitializeKnowledgeEngine", ptr)
    \/ /\ ptr # 0
       /\ \E ok \in BOOLEAN :
             /\ engine_call' = [op |-> "InitializeKnowledgeEngine", result |-> ok]
             /\ jni_return' = [method |-> "nativeInitializeKnowledgeEngine",
                               null |-> FALSE, value |-> ok]
       /\ jni_call' = [method |-> "nativeInitializeKnowledgeEngine", ptr |-> ptr]
       /\ conversions' = <<>>
       /\ UNCHANGED <<java_text, java_selection, annotator>>

\* The selection goes to the engine as it came, in UTF-16 offsets.
nativeSuggestSelection_Unconverted(ptr, context, selection_begin, selection_end) ==
    \/ NullHandle("nativeSuggestSelection", ptr)
    \/ /\ ptr # 0
       /\ LET input_indices == Span(selection_begin, selection_end)
          IN  \E selection \in SuggestSelectionResults(context, input_indices) :
                 LET back == Conversion(TRUE, context, selection)
                 IN  /\ engine_call' = [op |-> "SuggestSelection",
                                        context |-> context,
                                        span |-> input_indices,
                                        result |-> selection]
                     /\ conversions' = <<back>>
                     /\ jni_return' = [method |-> "nativeSuggestSelection",
                                       null |-> FALSE, value |-> back.out]
       /\ jni_call' = [method |-> "nativeSuggestSelection", ptr |-> ptr,
                       context |-> context,
                       span |-> Span(selection_begin, selection_end)]
       /\ UNCHANGED <<java_text, java_selection, annotator>>

nativeSuggestSelection(ptr, context, selection_begin, selection_end) ==
    \/ NullHandle("nativeSuggestSelection", ptr)
    \/ /\ ptr # 0
       /\ LET input == Conversion(FALSE, context,
                                  Span(selection_begin, selection_end))
              input_indices == input.out
          IN  \E selection \in SuggestSelectionResults(context, input_indices) :
                 LET back == Conversion(TRUE, context, selection)
                 IN  /\ engine_call' = [op |-> "SuggestSelection",
                                        context |-> context,
                                        span |-> input_indices,
                                        result |-> selection]
                     /\ conversions' = <<input, back>>
                     /\ jni_return' = [method |-> "nativeSuggestSelection",
                                       null |-> FALSE, value |-> back.out]
       /\ jni_call' = [method |-> "nativeSuggestSelection", ptr |-> ptr,
                       context |-> context,
                       span |-> Span(selection_begin, selection_end)]
       /\ UNCHANGED <<java_text, java_selection, annotator>>

\* The handle is used without the test for 0.
nativeClassifyText_NoGuard(ptr, context, selection_begin, selection_end) ==
    /\ LET input == Conversion(FALSE, context,
                               Span(selection_begin, selection_end))
       IN  /\ engine_call' = [op |-> "ClassifyText",
                              context |-> context,
                              span |-> input.out,
                              result |-> "classification_result"]
           /\ conversions' = <<input>>
    /\ jni_return' = [method |-> "nativeClassifyText", null |-> FALSE,
                      value |-> "classification_result"]
    /\ jni_call' = [method |-> "nativeClassifyText", ptr |-> ptr,
                    context |-> context,
                    span |-> Span(selection_begin, selection_end)]
    /\ UNCHANGED <<java_text, java_selection, annotator>>

nativeClassifyText(ptr, context, selection_begin, selection_end) ==
    \/ NullHandle("nativeClassifyText", ptr)
    \/ /\ ptr # 0
       /\ LET input == Conversion(FALSE, context,
                                  Span(selection_begin, selection_end))
          IN  /\ engine_call' = [op |-> "ClassifyText",
                                 context |-> context,
                                 span |-> input.out,
                                 result |-> "classification_result"]
              /\ conversions' = <<input>>
       /\ jni_return' = [method |-> "nativeClassifyText", null |-> FALSE,
                         value |-> "classification_result"]
       /\ jni_call' = [method |-> "nativeClassifyText", ptr |-> ptr,
                       context |-> context,
                       span |-> Span(selection_begin, selection_end)]
       /\ UNCHANGED <<java_text, java_selection, annotator>>

\* The engine is called first; when the result class cannot be found the
\* method returns null before any span is converted.
nativeAnnotate(ptr, context) ==
    \/ NullHandle("nativeAnnotate", ptr)
    \/ /\ ptr # 0
       /\ \E annotations \in AnnotateResults(context), result_class \in BOOLEAN :
             /\ engine_call' = [op |-> "Annotate", context |-> context,
                                result |-> annotations]
             /\ IF ~result_class
                THEN /\ conversions' = <<>>
                     /\ jni_return' = [method |-> "nativeAnnotate",
                                       null |-> TRUE]
                ELSE LET span_bmp == [i \in 1 .. Len(annotations) |->
                                         Conversion(TRUE, context, annotations[i])]
                     IN  /\ conversions' = span_bmp
                         /\ jni_return' = [method |-> "nativeAnnotate",
                                           null |-> FALSE,
                                           value |-> [i \in 1 .. Len(annotations)
                                                         |-> span_bmp[i].out]]
       /\ jni_call' = [method |-> "nativeAnnotate", ptr |-> ptr,
                       context |-> context]
       /\ UNCHANGED <<java_text, java_selection, annotator>>

\* delete model; deleting a null pointer does nothing.
nativeCloseAnnotator(ptr) ==
    /\ annotator' = IF ptr = 0 THEN annotator ELSE 0
    /\ jni_call' = [method |-> "nativeCloseAnnotator", ptr |-> ptr]
    /\ engine_call' = NoCall
    /\ conversions' = <<>>
    /\ jni_return' = [method |-> "nativeCloseAnnotator", null |-> FALSE]
    /\ UNCHANGED <<java_text, java_selection>>

\* The managed caller takes the returned value and goes on.
ManagedResume ==
    /\ jni_call.method # "none"
    /\ jni_call' = [method |-> "none"]
    /\ engine_call' = NoCall
    /\ conversions' = <<>>
    /\ jni_return' = [method |-> "none", null |-> FALSE]
    /\ UNCHANGED <<java_text, java_selection, annotator>>

\* The managed side passes the handle it holds, or 0.
Handles == {0, annotator}

JniTexts == SeqsUpTo(MaxContextLen)

JniOffsets == {-5} \cup (-1 .. 2 * MaxContextLen + 1)

\* The managed side holds any text and any selection, and no annotator yet.
JniInit ==
    /\ ScanIdle
    /\ java_text \in JniTexts
    /\ java_selection \in {Span(a, b) : a \in JniOffsets, b \in JniOffsets}
    /\ annotator = 0
    /\ NoJniCall

\* The managed caller makes one call at a time.
Callable == jni_call.method = "none" /\ UNCHANGED scan_vars

JniNext ==
    \/ Callable /\ nativeNewAnnotator
    \/ Callable /\ \E ptr \in Handles : nativeInitializeKnowledgeEngine(ptr)
    \/ Callable /\ \E ptr \in Handles :
          nativeSuggestSelection(ptr, java_text, java_selection.first,
                                 java_selection.second)
    \/ Callable /\ \E ptr \in Handles :
          nativeClassifyText(ptr, java_text, java_selection.first,
                             java_selection.second)
    \/ Callable /\ \E ptr \in Handles : nativeAnnotate(ptr, java_text)
    \/ Callable /\ \E ptr \in Handles : nativeCloseAnnotator(ptr)
    \/ ManagedResume /\ UNCHANGED scan_vars

JniSpec == JniInit /\ [][JniNext]_vars

---------------------------------------------------------------------------
\* Reference notions the properties are stated in: UTF-16 encodes a scalar
\* value from U+10000 up as a surrogate pair of two code units, any other as
\* one code unit.

Utf16Units(cp) == IF cp >= 65536 THEN 2 ELSE 1

\* UTF-16 offset of the boundary before the (p+1)-th scalar value, p in 0..Len.
RECURSIVE Utf16Offset(_, _)
Utf16Offset(str, p) ==
    IF p = 0 THEN 0 ELSE Utf16Offset(str, p - 1) + Utf16Units(str[p])

CodepointLength(str) == Len(str)

Utf16Length(str) == Utf16Offset(str, Len(str))

\* The UTF-16 offsets that are boundaries between scalar values.
Utf16Boundaries(str) == {Utf16Offset(str, p) : p \in 0 .. Len(str)}

\* Length of the text in the index space the call reads its span in.
SourceLength == IF from_utf8 THEN CodepointLength(utf8_str) ELSE Utf16Length(utf8_str)

TargetLength == IF from_utf8 THEN Utf16Length(utf8_str) ELSE CodepointLength(utf8_str)

InRange(e) == 0 <= e /\ e <= SourceLength

\* The value an in-range endpoint on a scalar-value boundary stands for in
\* the target space.
Mapped(e) ==
    IF from_utf8 THEN Utf16Offset(utf8_str, e)
    ELSE CHOOSE p \in 0 .. Len(utf8_str) : Utf16Offset(utf8_str, p) = e

OnBoundary(e) ==
    /\ InRange(e)
    /\ from_utf8 \/ e \in Utf16Boundaries(utf8_str)

BmpOnly(str) == \A i \in 1 .. Len(str) : str[i] <= 65535

Supplementary(str) == {i \in 1 .. Len(str) : str[i] > 65535}

Returned == pc = "returned"

\* The two (input endpoint, output endpoint) pairs of the finished call.
Endpoints == {<<orig_indices.first, result.first>>,
              <<orig_indices.second, result.second>>}

---------------------------------------------------------------------------
\* C1: round trip.  For a span (a,b) with 0 <= a <= b <= codepoint length,
\* converting it to UTF-16 offsets and the outcome back to codepoint offsets
\* gives (a,b) again.
C1_RoundTrip ==
    (/\ Returned
     /\ from_utf8
     /\ 0 <= orig_indices.first
     /\ orig_indices.first <= orig_indices.second
     /\ orig_indices.second <= CodepointLength(utf8_str))
    => ConvertIndicesBMPToUTF8(utf8_str, result) = orig_indices

\* A span around a supplementary character, whose UTF-16 form differs from
\* it, has been converted and converts back.
C1_Witness ==
    /\ Returned
    /\ from_utf8
    /\ 0 <= orig_indices.first
    /\ orig_indices.first < orig_indices.second
    /\ orig_indices.second <= CodepointLength(utf8_str)
    /\ result.first # orig_indices.first
    /\ result.second # orig_indices.second
    /\ ConvertIndicesBMPToUTF8(utf8_str, result) = orig_indices

\* C2 as stated: on a text whose scalar values are all <= 0xFFFF, the
\* returned span equals the input span, for every input span, in both
\* directions.
C2_IdentityEverySpan ==
    (Returned /\ BmpOnly(utf8_str)) => result = orig_indices

\* C2 amended: on a text whose scalar values are all <= 0xFFFF, in both
\* directions, an endpoint within 0..length is returned unchanged; an endpoint
\* outside it is returned as -1.
C2_IdentityInRange ==
    (Returned /\ BmpOnly(utf8_str)) =>
        \A e \in Endpoints :
            /\ (0 <= e[1] /\ e[1] <= Len(utf8_str)) => e[2] = e[1]
            /\ ~(0 <= e[1] /\ e[1] <= Len(utf8_str)) => e[2] = -1

\* A text holding U+FFFF has been converted from UTF-16 offsets, the span
\* reaching past U+FFFF to the end of the text, and came back unchanged.
C2_Witness ==
    /\ Returned
    /\ ~from_utf8
    /\ BmpOnly(utf8_str)
    /\ Len(utf8_str) >= 2
    /\ utf8_str[1] = 65535
    /\ orig_indices = Span(1, Len(utf8_str))
    /\ result = orig_indices

\* C3: with exactly one scalar value above 0xFFFF, at codepoint position k
\* (counted from 0), ConvertIndicesUTF8ToBMP maps a position p in 0..k to p and
\* a position p in k+1..length to p + 1.
C3_OneSupplementaryShift ==
    (Returned /\ from_utf8 /\ Cardinality(Supplementary(utf8_str)) = 1) =>
        LET k == (CHOOSE i \in Supplementary(utf8_str) : TRUE) - 1
        IN  \A e \in Endpoints :
                (0 <= e[1] /\ e[1] <= Len(utf8_str)) =>
                    e[2] = IF e[1] > k THEN e[1] + 1 ELSE e[1]

\* 'a', U+10000, 'a': the codepoint span (1,2) has become (1,3).
C3_Witness ==
    /\ Returned
    /\ from_utf8
    /\ utf8_str = <<97, 65536, 97>>
    /\ orig_indices = Span(1, 2)
    /\ result = Span(1, 3)

\* C4: the end-of-text span resolves.  (cp_len, cp_len) converts to
\* (utf16_len, utf16_len) and (utf16_len, utf16_len) converts to
\* (cp_len, cp_len), the empty text included.
C4_EndOfText ==
    (/\ Returned
     /\ orig_indices = Span(SourceLength, SourceLength))
    => result = Span(TargetLength, TargetLength)

\* The end-of-text span of a text with a supplementary character, where the
\* two lengths differ, has been converted from UTF-16 offsets.
C4_Witness ==
    /\ Returned
    /\ ~from_utf8
    /\ Supplementary(utf8_str) # {}
    /\ orig_indices = Span(Utf16Length(utf8_str), Utf16Length(utf8_str))
    /\ result = Span(Len(utf8_str), Len(utf8_str))
    /\ result # orig_indices

\* C5 as stated: an endpoint that is negative or beyond the source length
\* comes out as -1, and the other endpoint, whenever it is in range, comes out
\* resolved (not -1).
C5_InRangeAlwaysResolves ==
    Returned =>
        \A e \in Endpoints :
            /\ ~InRange(e[1]) => e[2] = -1
            /\ InRange(e[1]) => e[2] # -1

\* C5 amended: an endpoint that is negative or beyond the source length comes
\* out as -1; the other endpoint of the same span, when it is in range and on
\* a scalar-value boundary (every in-range codepoint offset is; a UTF-16
\* offset inside a surrogate pair is not), comes out as its value in the
\* target space.
C5_OutOfRangeIsMinusOne ==
    Returned =>
        \A e \in Endpoints :
            /\ ~InRange(e[1]) => e[2] = -1
            /\ OnBoundary(e[1]) => (e[2] = Mapped(e[1]) /\ e[2] # -1)

\* The span (-5, 3) on a text with a surrogate pair before offset 3 has been
\* converted from UTF-16 offsets to (-1, 2).
C5_Witness ==
    /\ Returned
    /\ ~from_utf8
    /\ orig_indices = Span(-5, 3)
    /\ SourceLength >= 3
    /\ result = Span(-1, 2)

\* C8: the endpoints are converted independently.  The first output depends
\* only on the first input and the second output only on the second input;
\* a span with equal endpoints yields equal outputs.
C8_EndpointsIndependent ==
    Returned =>
        /\ \A x \in Offsets :
              /\ ConvertIndicesBMPUTF8(utf8_str, Span(orig_indices.first, x),
                                       from_utf8).first = result.first
              /\ ConvertIndicesBMPUTF8(utf8_str, Span(x, orig_indices.second),
                                       from_utf8).second = result.second
        /\ orig_indices.first = orig_indices.second
              => result.first = result.second

\* A span with equal endpoints after a supplementary character has been
\* converted, both outputs resolved.
C8_Witness ==
    /\ Returned
    /\ orig_indices.first = orig_indices.second
    /\ result.first = result.second
    /\ result.first # -1
    /\ result.first # orig_indices.first

\* C9: from UTF-16 offsets, an offset between the two code units of a
\* surrogate pair comes out as -1 although it is within 0..utf16_len; an
\* in-range UTF-16 offset resolves exactly when it is a scalar-value boundary.
C9_MidSurrogateUnresolved ==
    (Returned /\ ~from_utf8) =>
        \A e \in Endpoints :
            /\ (\E i \in Supplementary(utf8_str) :
                    e[1] = Utf16Offset(utf8_str, i - 1) + 1) => e[2] = -1
            /\ InRange(e[1]) =>
                   (e[2] # -1 <=> e[1] \in Utf16Boundaries(utf8_str))

\* A span that starts inside a surrogate pair and ends on a boundary has been
\* converted: the first output is -1, the second resolved.
C9_Witness ==
    /\ Returned
    /\ ~from_utf8
    /\ \E i \in Supplementary(utf8_str) :
           orig_indices.first = Utf16Offset(utf8_str, i - 1) + 1
    /\ InRange(orig_indices.first)
    /\ result.first = -1
    /\ result.second # -1

\* C10: order is preserved and the counters advance.  When both outputs are
\* resolved, a <= b gives a' <= b' and a < b gives a' < b'; the UTF-16 counter
\* is never below the codepoint counter; an endpoint already matched lies
\* strictly behind the source counter; every iteration increases both
\* counters.
C10_OrderState ==
    /\ (Returned /\ result.first # -1 /\ result.second # -1) =>
           /\ orig_indices.first <= orig_indices.second
                  => result.first <= result.second
           /\ orig_indices.first < orig_indices.second
                  => result.first < result.second
    /\ pc \in {"loop", "returned"} => bmp_index >= unicode_index
    /\ pc = "loop" =>
           \A e \in Endpoints :
               e[2] # -1 => e[1] < source_index(from_utf8, unicode_index, bmp_index)

C10_CountersAdvance ==
    (pc = "loop" /\ pc' = "loop") =>
        /\ unicode_index' > unicode_index
        /\ bmp_index' > bmp_index

C10_OrderPreserved == [](C10_OrderState) /\ [][C10_CountersAdvance]_vars

\* A span around a supplementary character has been converted, both outputs
\* resolved and in order, with the UTF-16 counter ahead of the codepoint one.
C10_Witness ==
    /\ Returned
    /\ orig_indices.first < orig_indices.second
    /\ result.first # -1
    /\ result.first < result.second
    /\ result.second - result.first > orig_indices.second - orig_indices.first
    /\ bmp_index > unicode_index

---------------------------------------------------------------------------
\* Properties of the JNI entry points.

\* c is the codepoint offset UTF-16 offset u stands for in text t, or -1 when
\* u is no scalar-value boundary of t.
IsCodepointOf(t, u, c) ==
    IF 0 <= u /\ u \in Utf16Boundaries(t)
    THEN 0 <= c /\ c <= Len(t) /\ Utf16Offset(t, c) = u
    ELSE c = -1

\* u is the UTF-16 offset codepoint offset c stands for in text t, or -1 when
\* c is no position of t.
IsUtf16Of(t, c, u) ==
    IF 0 <= c /\ c <= Len(t) THEN u = Utf16Offset(t, c) ELSE u = -1

SpanIsCodepointOf(t, bmp, cp) ==
    IsCodepointOf(t, bmp.first, cp.first) /\ IsCodepointOf(t, bmp.second, cp.second)

SpanIsUtf16Of(t, cp, bmp) ==
    IsUtf16Of(t, cp.first, bmp.first) /\ IsUtf16Of(t, cp.second, bmp.second)

TakesSelection == engine_call.op \in {"SuggestSelection", "ClassifyText"}

ReturnsSpan == jni_return.method = "nativeSuggestSelection" /\ ~jni_return.null

ReturnsSpans == jni_return.method = "nativeAnnotate" /\ ~jni_return.null

\* C6: an unresolved endpoint is not propagated.  No engine call takes -1 as
\* an offset of its selection, and no span handed back to the managed caller
\* has -1 as an offset.
C6_MinusOneNotPropagated ==
    /\ TakesSelection =>
           engine_call.span.first # -1 /\ engine_call.span.second # -1
    /\ ReturnsSpan =>
           jni_return.value.first # -1 /\ jni_return.value.second # -1
    /\ ReturnsSpans =>
           \A i \in 1 .. Len(jni_return.value) :
               jni_return.value[i].first # -1 /\ jni_return.value[i].second # -1

\* C7: conversions at the boundary.  The engine takes the selection converted
\* from the managed side's UTF-16 offsets to codepoint offsets, the conversion
\* being the call's first; every span handed back is the engine's span
\* converted from codepoint offsets to UTF-16 offsets.
C7_ConvertedAtBoundary ==
    /\ TakesSelection =>
           /\ engine_call.context = jni_call.context
           /\ SpanIsCodepointOf(jni_call.context, jni_call.span, engine_call.span)
           /\ Len(conversions) >= 1
           /\ conversions[1] = [from_utf8 |-> FALSE, in |-> jni_call.span,
                                out |-> engine_call.span]
    /\ (jni_call.method \in {"nativeSuggestSelection", "nativeClassifyText"}
            /\ jni_call.ptr # 0) => TakesSelection
    /\ ReturnsSpan =>
           /\ engine_call.op = "SuggestSelection"
           /\ SpanIsUtf16Of(jni_call.context, engine_call.result, jni_return.value)
           /\ conversions[Len(conversions)] =
                  [from_utf8 |-> TRUE, in |-> engine_call.result,
                   out |-> jni_return.value]
    /\ ReturnsSpans =>
           /\ engine_call.op = "Annotate"
           /\ Len(jni_return.value) = Len(engine_call.result)
           /\ \A i \in 1 .. Len(jni_return.value) :
                  SpanIsUtf16Of(jni_call.context, engine_call.result[i],
                                jni_return.value[i])

\* nativeSuggestSelection has run on a text with a supplementary character:
\* the engine took codepoint offsets that differ from the UTF-16 selection,
\* and the span handed back differs from the engine's.
C7_Witness ==
    /\ ReturnsSpan
    /\ engine_call.span # jni_call.span
    /\ engine_call.span.first # -1
    /\ engine_call.span.second # -1
    /\ jni_return.value # engine_call.result
    /\ jni_return.value.first # -1
    /\ jni_return.value.second # -1

\* The entry points that return at once on a null handle.
GuardedMethods == {"nativeInitializeKnowledgeEngine", "nativeSuggestSelection",
                   "nativeClassifyText", "nativeAnnotate"}

CalledWithNull(methods) == jni_call.method \in methods /\ jni_call.ptr = 0

\* C11: the null native handle guard.  In every sequence of calls,
\* nativeInitializeKnowledgeEngine, nativeSuggestSelection, nativeClassifyText
\* and nativeAnnotate called with ptr == 0 return the failure value, call no
\* engine operation and convert no index; nativeCloseAnnotator called with
\* ptr == 0 leaves the handle and everything else of the managed side as it was.
C11_NullReturnsFailure ==
    CalledWithNull(GuardedMethods) =>
        /\ jni_return.method = jni_call.method
        /\ jni_return.null
        /\ engine_call = NoCall
        /\ conversions = <<>>

C11_NullCloseNoEffect ==
    (/\ jni_call.method = "none"
     /\ jni_call'.method = "nativeCloseAnnotator"
     /\ jni_call'.ptr = 0)
    => /\ annotator' = annotator
       /\ engine_call' = NoCall
       /\ conversions' = <<>>
       /\ UNCHANGED <<java_text, java_selection>>

C11_NullHandleGuard ==
    [](C11_NullReturnsFailure) /\ [][C11_NullCloseNoEffect /\
        (CalledWithNull(GuardedMethods)' => annotator' = annotator)]_vars

\* While the managed side holds a live annotator, nativeSuggestSelection has
\* been called with ptr == 0 and has returned null; the annotator is still
\* held.
C11_Witness ==
    /\ annotator # 0
    /\ CalledWithNull({"nativeSuggestSelection"})
    /\ jni_return.null
    /\ engine_call = NoCall
    /\ conversions = <<>>

\* nativeCloseAnnotator has been called with ptr == 0 while a live annotator
\* is held, and it is still held.
C11_CloseWitness ==
    /\ annotator # 0
    /\ CalledWithNull({"nativeCloseAnnotator"})

===========================================================================
